---- MODULE Spec2Model ----
(***************************************************************************)
(* A model of the NWS warnings sensor (sensor.py): the NWSWarningsEntity   *)
(* object, its throttled async_update coroutine and the query builder.     *)
(*                                                                         *)
(* Python values are encoded as follows.  None is NoneStr where a string   *)
(* is expected and NoneNum where a number is expected; a dict is a         *)
(* function whose domain is its key set; the clock counts minutes of local *)
(* wall-clock time.                                                        *)
(***************************************************************************)
EXTENDS Integers, Sequences, FiniteSets, TLC

VARIABLES
    _location,       \* self._location: <<>> (None) or [latitude, longitude]
    _zone,           \* self._zone: NoneStr or an entity id
    _forecast_days,  \* self._forecast_days: NoneNum or 1..5
    _active_only,    \* self._active_only
    _state,          \* self._state
    _updates,        \* self._updates
    _websession,     \* self._websession: NoneStr or "session"
    throttle,        \* Throttle's last-call time for this entity (NoneNum: never)
    now,             \* local wall clock, in minutes
    pc,              \* where the async_update coroutine is: idle, get, json
    result,          \* what the last async_update call returned or raised
    fetch,           \* how the HTTP exchange of the last un-throttled call went
    request,         \* the last GET issued: <<>> or [url, params, headers]
    netCalls,        \* number of GET requests issued so far
    zoneSeen,        \* what hass.states.get returned in the last un-throttled call
    response,        \* the 200 response whose body is being read, or NoResponse
    before,          \* <<_state, _updates>> when the last un-throttled call started
    everSucceeded    \* some async_update call has returned True

vars == <<_location, _zone, _forecast_days, _active_only, _state, _updates,
          _websession, throttle, now, pc, result, fetch, request, netCalls,
          zoneSeen, response, before, everSucceeded>>

config == <<_location, _zone, _forecast_days, _active_only>>

-----------------------------------------------------------------------------
(* Bounds of the model *)

MaxFeatures == 2
MaxElapsed == 6

-----------------------------------------------------------------------------
(* Encoding of Python values *)

NoneStr == "<None>"
NoneNum == 0 - 1000

\* bool(x) of an optional string: None and '' are false
TruthyStr(s) == s # NoneStr /\ s # ""

\* bool(x) of an optional number: None and 0 are false
TruthyNum(n) == n # NoneNum /\ n # 0

EmptyDict == <<>>

\* d.get(k, default)
DictGet(d, k, default) == IF k \in DOMAIN d THEN d[k] ELSE default

\* d[k] = v
DictSet(d, k, v) == [x \in (DOMAIN d) \cup {k} |-> IF x = k THEN v ELSE d[x]]

-----------------------------------------------------------------------------
(* Module constants *)

NWS_API_ENDPOINT == "https://api.weather.gov/alerts"
USER_AGENT == "Home Assistant"
DEFAULT_SEVERITY == <<"moderate", "severe", "extreme">>
DEFAULT_MESSAGE_TYPE == <<"alert", "update">>
MIN_TIME_BETWEEN_UPDATES == 5

DayMinutes == 24 * 60

\* The wall clock at construction: shortly before a local midnight.
StartTime == 2 * DayMinutes - 3

-----------------------------------------------------------------------------
(* Inputs *)

\* Values configuration validation accepts (cv.latitude, cv.longitude).
Latitudes == {0, 40}
Longitudes == {-105, 0}
Locations == {[latitude |-> la, longitude |-> lo] : la \in Latitudes, lo \in Longitudes}
ForecastDays == 1..5

\* What hass.states.get(zone) can return: "absent" or a state whose
\* attributes hold any subset of latitude and longitude.
ZoneCoordinates == {0, 40}
ZoneAttributes ==
    UNION {[S -> ZoneCoordinates] : S \in SUBSET {"latitude", "longitude"}}
AbsentZone == [present |-> FALSE, attributes |-> EmptyDict]
ZoneStates == {AbsentZone} \cup {[present |-> TRUE, attributes |-> a] : a \in ZoneAttributes}
NotConsulted == [consulted |-> FALSE, zone |-> AbsentZone]

\* A feature of the response.  `null` says the feature's "properties" is
\* JSON null; otherwise headline and sent are what properties.get returns
\* (NoneStr when the key is missing or null).
Feature(h, s) == [null |-> FALSE, headline |-> h, sent |-> s]
NullFeature == [null |-> TRUE, headline |-> NoneStr, sent |-> NoneStr]
Features ==
    {NullFeature,
     Feature("A", "t1"), Feature("B", "t1"), Feature("B", "t2"),
     Feature("A", NoneStr), Feature(NoneStr, "t2")}

FeatureLists == UNION {[1..n -> Features] : n \in 0..MaxFeatures}

\* A parsed body: a JSON object with or without a "features" array.
Bodies == {EmptyDict} \cup {[features |-> f] : f \in FeatureLists}

\* A 200 response: its body is JSON text of some object (valid) or is not
\* JSON at all.
NoResponse == [status |-> "none", valid |-> FALSE, body |-> EmptyDict]
NotJson == [status |-> "200", valid |-> FALSE, body |-> EmptyDict]
Responses == {NotJson} \cup {[status |-> "200", valid |-> TRUE, body |-> b] : b \in Bodies}

\* How `await self._websession.get(...)` can end.
GetOutcomes == {"timeout", "ClientError", "status404", "status500", "status200"}
\* How `await response.json()` can end: the timeout fires, aiohttp raises a
\* ClientError (payload or content-type error), or the body is read.
JsonOutcomes == {"timeout", "ClientError", "read"}

-----------------------------------------------------------------------------
(* Query builder *)

RECURSIVE Join(_, _)
Join(sep, seq) ==
    IF Len(seq) = 0 THEN ""
    ELSE IF Len(seq) = 1 THEN seq[1]
    ELSE seq[1] \o sep \o Join(sep, Tail(seq))

_get_headers ==
    [k \in {"User-Agent", "Accept"} |->
        IF k = "User-Agent" THEN USER_AGENT ELSE "application/geo+json"]

_get_query_params(severity, message_type, latitude, longitude) ==
    [message_type |-> message_type,
     severity |-> severity,
     point |-> ToString(latitude) \o "," \o ToString(longitude)]

_append_time_params(params, start, end) ==
    IF TruthyStr(start) /\ TruthyStr(end)
    THEN DictSet(DictSet(params, "start", start), "end", end)
    ELSE params

\* datetime.isoformat() of a local time t (minutes): date ordinal,
\* hour and minute.
Pad2(n) == IF n < 10 THEN "0" \o ToString(n) ELSE ToString(n)
IsoFormat(t) ==
    "D" \o ToString(t \div DayMinutes) \o "T"
        \o Pad2((t % DayMinutes) \div 60) \o ":" \o Pad2(t % 60) \o ":00"

\* datetime(year=now.year, month=now.month, day=now.day, hour=0, second=0)
Midnight(t) == (t \div DayMinutes) * DayMinutes

\* start of the window: midnight of the day before the current one
WindowStart(t) == Midnight(t - DayMinutes)

\* A variant of WindowEnd that adds the horizon only.
WindowEndHorizonOnly(start, forecast_days) == start + forecast_days * DayMinutes

\* end = start + timedelta(days=forecast_days + 1)
WindowEnd(start, forecast_days) == start + (forecast_days + 1) * DayMinutes

BuildParams(latitude, longitude) ==
    LET params == _get_query_params(Join(",", DEFAULT_SEVERITY),
                                    Join(",", DEFAULT_MESSAGE_TYPE),
                                    latitude, longitude)
    IN  IF ~_active_only
        THEN LET start == WindowStart(now)
                 end == WindowEnd(start, _forecast_days)
             IN  _append_time_params(params, IsoFormat(start), IsoFormat(end))
        ELSE params

Url == IF ~_active_only THEN NWS_API_ENDPOINT ELSE NWS_API_ENDPOINT \o "/active"

-----------------------------------------------------------------------------
(* Coordinate resolution *)

NoCoordinates == <<NoneNum, NoneNum>>

\* A variant of _get_zone_lat_long that falls back to fixed coordinates when
\* the zone cannot be resolved.
ZoneLatLongWithFallback(zone) ==
    IF ~zone.present THEN <<40, -105>>
    ELSE LET latitude == DictGet(zone.attributes, "latitude", NoneNum)
             longitude == DictGet(zone.attributes, "longitude", NoneNum)
         IN  IF ~TruthyNum(latitude) \/ ~TruthyNum(longitude)
             THEN <<40, -105>>
             ELSE <<latitude, longitude>>

_get_zone_lat_long(zone) ==
    IF ~zone.present THEN NoCoordinates
    ELSE LET latitude == DictGet(zone.attributes, "latitude", NoneNum)
             longitude == DictGet(zone.attributes, "longitude", NoneNum)
         IN  IF ~TruthyNum(latitude) \/ ~TruthyNum(longitude)
             THEN NoCoordinates
             ELSE <<latitude, longitude>>

\* lines 197-203 of async_update
ResolveCoordinates(zone) ==
    IF DOMAIN _location # {}
    THEN <<DictGet(_location, "latitude", NoneNum),
           DictGet(_location, "longitude", NoneNum)>>
    ELSE IF TruthyStr(_zone) THEN _get_zone_lat_long(zone)
    ELSE NoCoordinates

\* whether the call reaches hass.states.get
ConsultsZone == DOMAIN _location = {} /\ TruthyStr(_zone)

-----------------------------------------------------------------------------
(* Projection of the response (lines 245-255) *)

\* A variant of the loop in which every complete feature replaces the
\* headline chosen so far.
RECURSIVE ProjectFromLastWins(_, _, _, _)
ProjectFromLastWins(features, i, st, upd) ==
    IF i > Len(features)
    THEN [state |-> IF TruthyStr(st) THEN st ELSE " ", updates |-> upd, raised |-> ""]
    ELSE LET feature == features[i]
         IN  IF feature.null
             THEN [state |-> st, updates |-> upd, raised |-> "AttributeError"]
             ELSE LET update == feature.headline
                      sent == feature.sent
                  IN  IF TruthyStr(update) /\ TruthyStr(sent)
                      THEN ProjectFromLastWins(features, i + 1, update,
                                               DictSet(upd, sent, update))
                      ELSE ProjectFromLastWins(features, i + 1, st, upd)

\* The for loop from feature i on, with self._state = st and
\* self._updates = upd; raised names the exception that ends it early.
RECURSIVE ProjectFrom(_, _, _, _)
ProjectFrom(features, i, st, upd) ==
    IF i > Len(features)
    THEN [state |-> IF TruthyStr(st) THEN st ELSE " ", updates |-> upd, raised |-> ""]
    ELSE LET feature == features[i]
         IN  IF feature.null
             THEN [state |-> st, updates |-> upd, raised |-> "AttributeError"]
             ELSE LET update == feature.headline
                      sent == feature.sent
                  IN  IF TruthyStr(update) /\ TruthyStr(sent)
                      THEN ProjectFrom(features, i + 1,
                                       IF ~TruthyStr(st) THEN update ELSE st,
                                       DictSet(upd, sent, update))
                      ELSE ProjectFrom(features, i + 1, st, upd)

\* A variant of Project that fills the mapping of the previous poll instead
\* of a fresh one.
ProjectMerging(body) ==
    ProjectFrom(DictGet(body, "features", <<>>), 1, NoneStr, _updates)

\* self._state = None; self._updates = {}; the loop; self._state or ' '
Project(body) == ProjectFrom(DictGet(body, "features", <<>>), 1, NoneStr, EmptyDict)

-----------------------------------------------------------------------------
(* Throttle *)

\* A variant of Throttled that lets a call through once min_time has passed
\* exactly.
ThrottledUpToMinTime(t, last) ==
    last # NoneNum /\ ~(t - last >= MIN_TIME_BETWEEN_UPDATES)

\* Throttle.wrapper: the call goes through when the method was never called
\* or more than min_time has passed since the last call that went through.
Throttled(t, last) == last # NoneNum /\ ~(t - last > MIN_TIME_BETWEEN_UPDATES)

-----------------------------------------------------------------------------
(* The entity *)

Init ==
    \* exactly one of zone and location is configured
    /\ \/ /\ _location = <<>>
          /\ _zone = "zone.home"
       \/ /\ _location \in Locations
          /\ _zone = NoneStr
    /\ _forecast_days \in {NoneNum} \cup ForecastDays
    /\ _active_only = ~TruthyNum(_forecast_days)
    /\ _state = ""
    /\ _updates = <<>>
    /\ _websession = NoneStr
    /\ throttle = NoneNum
    /\ now = StartTime
    /\ pc = "idle"
    /\ result = "not called"
    /\ fetch = "none"
    /\ request = <<>>
    /\ netCalls = 0
    /\ zoneSeen = NotConsulted
    /\ response = NoResponse
    /\ before = <<"", <<>>>>
    /\ everSucceeded = FALSE

\* The host scheduler invokes async_update; zone is what the zone registry
\* answers if it is asked.  Runs to the first suspension point (the GET).
\* The scheduler awaits one update of the entity before it starts another.
AsyncUpdate(zone) ==
    /\ pc = "idle"
    /\ IF Throttled(now, throttle)
       THEN /\ result' = "None"
            /\ UNCHANGED <<config, _state, _updates, _websession, throttle, now, pc,
                           fetch, request, netCalls, zoneSeen, response, before,
                           everSucceeded>>
       ELSE LET coordinates == ResolveCoordinates(zone)
                latitude == coordinates[1]
                longitude == coordinates[2]
            IN  /\ throttle' = now
                /\ before' = <<_state, _updates>>
                /\ zoneSeen' = IF ConsultsZone
                               THEN [consulted |-> TRUE, zone |-> zone]
                               ELSE NotConsulted
                /\ IF ~TruthyNum(latitude) \/ ~TruthyNum(longitude)
                   THEN /\ result' = "False"
                        /\ fetch' = "none"
                        /\ UNCHANGED <<_websession, pc, request, netCalls>>
                   ELSE /\ request' = [url |-> Url,
                                       params |-> BuildParams(latitude, longitude),
                                       headers |-> _get_headers]
                        /\ _websession' = "session"
                        /\ netCalls' = netCalls + 1
                        /\ pc' = "get"
                        /\ fetch' = "pending"
                        /\ result' = "pending"
                /\ UNCHANGED <<config, _state, _updates, now, response, everSucceeded>>

\* A variant of GetCompletes whose failure path resets the snapshot.
GetCompletesResetting(outcome, r) ==
    /\ pc = "get"
    /\ IF outcome = "status200"
       THEN /\ pc' = "json"
            /\ response' = r
            /\ UNCHANGED <<result, fetch, _state, _updates>>
       ELSE /\ pc' = "idle"
            /\ result' = "False"
            /\ fetch' = outcome
            /\ _state' = " "
            /\ _updates' = EmptyDict
            /\ UNCHANGED response
    /\ UNCHANGED <<config, _websession, throttle, now, request,
                   netCalls, zoneSeen, before, everSucceeded>>

\* `await self._websession.get(...)` completes: with a timeout, a transport
\* error or a response status; r is the response a 200 carries.
GetCompletes(outcome, r) ==
    /\ pc = "get"
    /\ IF outcome = "status200"
       THEN /\ pc' = "json"
            /\ response' = r
            /\ UNCHANGED <<result, fetch>>
       ELSE /\ pc' = "idle"
            /\ result' = "False"
            /\ fetch' = outcome
            /\ UNCHANGED response
    /\ UNCHANGED <<config, _state, _updates, _websession, throttle, now, request,
                   netCalls, zoneSeen, before, everSucceeded>>

\* `await response.json()` completes, then the projection runs to the end
\* of the call without another suspension point.
JsonCompletes(outcome) ==
    /\ pc = "json"
    /\ pc' = "idle"
    /\ response' = NoResponse
    /\ IF outcome = "read" /\ response.valid
       THEN LET p == Project(response.body)
            IN  /\ _state' = p.state
                /\ _updates' = p.updates
                /\ fetch' = "ok"
                /\ result' = IF p.raised = "" THEN "True" ELSE p.raised
                /\ everSucceeded' = (everSucceeded \/ p.raised = "")
       ELSE /\ fetch' = IF outcome = "read" THEN "JSONDecodeError" ELSE outcome
            \* JSONDecodeError is a ValueError, which the except clause
            \* does not name
            /\ result' = IF outcome = "read" THEN "ValueError" ELSE "False"
            /\ UNCHANGED <<_state, _updates, everSucceeded>>
    /\ UNCHANGED <<config, _websession, throttle, now, request, netCalls, zoneSeen,
                   before>>

\* A minute passes.  The exchange is bounded by the 10 second timeout, so no
\* call is in flight across a tick.
Tick ==
    /\ pc = "idle"
    /\ now + 1 <= StartTime + MaxElapsed
    /\ now' = now + 1
    /\ UNCHANGED <<config, _state, _updates, _websession, throttle, pc, result,
                   fetch, request, netCalls, zoneSeen, response, before,
                   everSucceeded>>

Next ==
    \/ \E zone \in ZoneStates : AsyncUpdate(zone)
    \/ \E outcome \in GetOutcomes, r \in Responses : GetCompletes(outcome, r)
    \/ \E outcome \in JsonOutcomes : JsonCompletes(outcome)
    \/ Tick

Spec == Init /\ [][Next]_vars

-----------------------------------------------------------------------------
(* Vocabulary of the properties *)

snapshot == <<_state, _updates>>
InitialSnapshot == <<"", <<>>>>

\* A step in which the host invokes async_update (Tick is the only other
\* step taken while no call is in flight, and it moves the clock).
CallStep == pc = "idle" /\ now' = now

\* An invocation that the throttle lets through.
UnthrottledCallStep == CallStep /\ result' # "None"

\* The HTTP exchange of the last un-throttled call failed: it timed out,
\* raised a transport error or answered with a status other than 200.
FetchFailures == {"timeout", "ClientError", "status404", "status500"}

\* A feature carries both properties.headline and properties.sent.
Complete(f) == ~f.null /\ f.headline # NoneStr /\ f.sent # NoneStr

FeaturesOf(body) == IF "features" \in DOMAIN body THEN body.features ELSE <<>>

CompleteAt(fs) == {i \in 1..Len(fs) : Complete(fs[i])}

Largest(S) == CHOOSE i \in S : \A j \in S : j <= i
Smallest(S) == CHOOSE i \in S : \A j \in S : i <= j

\* The sent -> headline pairs of the complete features, a later feature
\* overwriting an earlier one with the same sent.
ExpectedUpdates(fs) ==
    [k \in {fs[i].sent : i \in CompleteAt(fs)} |->
        fs[Largest({i \in CompleteAt(fs) : fs[i].sent = k})].headline]

\* The headline of the first complete feature, or the blank placeholder.
ExpectedState(fs) ==
    IF CompleteAt(fs) = {} THEN " " ELSE fs[Smallest(CompleteAt(fs))].headline

\* The zone registry's answer lacks the zone, or one of its coordinates.
ZoneLacking(z) ==
    \/ ~z.present
    \/ "latitude" \notin DOMAIN z.attributes
    \/ "longitude" \notin DOMAIN z.attributes

\* The zone registry's answer resolves to a pair of coordinates.
ZoneResolvable(z) ==
    /\ z.present
    /\ DOMAIN z.attributes = {"latitude", "longitude"}
    /\ z.attributes["latitude"] # 0
    /\ z.attributes["longitude"] # 0

HasWindow(params) == "start" \in DOMAIN params \/ "end" \in DOMAIN params

-----------------------------------------------------------------------------
(* Properties *)

\* C1: a refresh whose fetch times out, raises a transport error or gets a
\* non-200 status returns False and leaves the displayed state and the
\* updates attribute equal to what they were when that refresh started.
C1_FailurePreservesState ==
    (pc = "idle" /\ fetch \in FetchFailures)
        => (snapshot = before /\ result \in {"False", "None"})

\* A successful poll established a headline, and a later poll timed out.
C1_Witness ==
    /\ pc = "idle"
    /\ fetch = "timeout"
    /\ result = "False"
    /\ everSucceeded
    /\ _state = "A"
    /\ netCalls = 2

\* C2 as stated: of two calls less than the minimum interval apart, the
\* first being a call that was attempted, the first issued exactly one
\* request, and the second issues none and changes nothing.
C2_Original ==
    [][(CallStep /\ throttle # NoneNum
            /\ now - throttle < MIN_TIME_BETWEEN_UPDATES)
        => /\ netCalls' = netCalls
           /\ snapshot' = snapshot
           /\ fetch # "none"]_vars

\* C2 as amended: a call made no more than the minimum interval after the
\* last call the throttle let through (whether that call succeeded, failed
\* or aborted) returns at once without a request and without touching the
\* state or the attributes; a call made later than that is let through; no
\* call issues more than one request, so two calls within the interval
\* issue at most one.
C2_ThrottledNoOp ==
    [][CallStep
        => /\ netCalls' \in {netCalls, netCalls + 1}
           /\ throttle # NoneNum
              => IF now - throttle <= MIN_TIME_BETWEEN_UPDATES
                 THEN /\ result' = "None"
                      /\ netCalls' = netCalls
                      /\ snapshot' = snapshot
                      /\ pc' = "idle"
                      /\ throttle' = throttle
                 ELSE /\ result' # "None"
                      /\ throttle' = now]_vars

\* A call exactly the minimum interval after the call that issued the one
\* request so far has been throttled.
C2_Witness ==
    /\ result = "None"
    /\ netCalls = 1
    /\ now = throttle + MIN_TIME_BETWEEN_UPDATES

\* C3: after a successful refresh the updates mapping is exactly the
\* sent -> headline projection of the complete features of that response
\* (later feature wins on a repeated sent), and nothing else.
C3_SnapshotReplacement ==
    [][(pc = "json" /\ result' = "True")
        => _updates' = ExpectedUpdates(FeaturesOf(response.body))]_vars

\* A second successful poll replaced a mapping with key t1 by one with
\* key t2 only.
C3_Witness ==
    /\ result = "True"
    /\ netCalls = 2
    /\ "t1" \in DOMAIN before[2]
    /\ DOMAIN _updates = {"t2"}

\* C4: after a successful refresh the displayed state is the headline of the
\* first complete feature, every complete feature's sent is a key of updates,
\* and with no complete feature the state is the single blank ' '.
C4_PrimaryHeadline ==
    [][(pc = "json" /\ result' = "True")
        => LET fs == FeaturesOf(response.body)
           IN  /\ _state' = ExpectedState(fs)
               /\ \A i \in CompleteAt(fs) : fs[i].sent \in DOMAIN _updates'
               /\ CompleteAt(fs) = {} => _state' = " "
               /\ _state' \notin {"", NoneStr}]_vars

\* Features (t1, A) then (t2, B) arrived: the state is A and both are mapped.
C4_Witness ==
    /\ result = "True"
    /\ _state = "A"
    /\ DOMAIN _updates = {"t1", "t2"}
    /\ _updates["t1"] = "A"
    /\ _updates["t2"] = "B"

\* C5: an entity that has never completed a successful poll reports a
\* non-empty placeholder state, never '' and never None.
C5_BlankDefault == ~everSucceeded => _state \notin {"", NoneStr}

\* C6 as stated: with a forecast horizon H the request carries start = local
\* midnight of the current day and end = start + H days; without one it
\* carries neither.
C6_Original ==
    [][(netCalls' # netCalls)
        => LET params == request'.params
           IN  IF TruthyNum(_forecast_days)
               THEN /\ "start" \in DOMAIN params
                    /\ "end" \in DOMAIN params
                    /\ params["start"] = IsoFormat(Midnight(now))
                    /\ params["end"] =
                         IsoFormat(Midnight(now) + _forecast_days * DayMinutes)
               ELSE ~HasWindow(params)]_vars

\* C6 as amended: with a forecast horizon H the request carries start = local
\* midnight of the day before the current one and end = start + (H + 1)
\* days; without one it carries neither.
C6_TimeWindow ==
    [][(netCalls' # netCalls)
        => LET params == request'.params
           IN  IF TruthyNum(_forecast_days)
               THEN /\ "start" \in DOMAIN params
                    /\ "end" \in DOMAIN params
                    /\ params["start"] = IsoFormat(Midnight(now) - DayMinutes)
                    /\ params["end"] =
                         IsoFormat(Midnight(now) - DayMinutes
                                     + (_forecast_days + 1) * DayMinutes)
               ELSE ~HasWindow(params)]_vars

\* A request with a window was issued for the longest horizon, after the
\* clock passed midnight.
C6_Witness ==
    /\ request # <<>>
    /\ _forecast_days = 5
    /\ netCalls = 2
    /\ "start" \in DOMAIN request.params
    /\ request.params["start"] = IsoFormat(Midnight(StartTime))

C8_NoPropagation ==
    /\ result \in {"not called", "pending", "None", "True", "False"}
    /\ fetch = "JSONDecodeError" => result \in {"False", "None"}

\* C9: whenever the host can read the entity, the snapshot is the initial
\* one or the complete projection of a single response without malformed
\* features.
C9_AtomicSnapshot ==
    \/ snapshot = InitialSnapshot
    \/ \E body \in Bodies :
          LET fs == FeaturesOf(body)
          IN  /\ \A i \in 1..Len(fs) : ~fs[i].null
              /\ _state = ExpectedState(fs)
              /\ _updates = ExpectedUpdates(fs)

\* C10: with a static location an un-throttled refresh does not ask the zone
\* registry and issues one GET whose point is "<lat>,<lon>" of that location.
C10_StaticLocation ==
    [][(UnthrottledCallStep /\ DOMAIN _location # {})
        => /\ ~zoneSeen'.consulted
           /\ netCalls' = netCalls + 1
           /\ pc' = "get"
           /\ request'.params["point"] =
                ToString(_location["latitude"]) \o "," \o ToString(_location["longitude"])]_vars

====
